---- MODULE Spec2Model ----
(***************************************************************************)
(* Model of the Substrate bridge of Parity Secret Store:                    *)
(*   - PendingTasksIterator and SubstrateBlock::pending_tasks (src/lib.rs), *)
(*   - SubstrateTransactionPool (src/transaction_pool.rs).                  *)
(* The blockchain and the transaction pool are traits whose implementations *)
(* are not part of the repository: every answer they give is an input.      *)
(***************************************************************************)
EXTENDS Integers, Sequences, FiniteSets, TLC

\* ------------------------------------------------------------------ bounds

\* The paged queries of one scan answer at most MaxWindows full pages in all.
MaxWindows == 2

\* The publish calls made on one SubstrateTransactionPool.
MaxCalls == 2

\* The events of one block.
MaxEvents == 3

\* The tasks pulled from two iterators of pending_tasks() that are alive together.
MaxPulled == 2

\* ---------------------------------------------------------------- constants

\* const PENDING_RANGE_LENGTH: usize = 16
PENDING_RANGE_LENGTH == 16

\* std::usize::MAX, the end of a fresh pager's range. The value itself is beyond
\* the integers of the checker; the largest one it has stands for it. range.start
\* stays below (MaxWindows + 1) * PENDING_RANGE_LENGTH, so the sum in next() never
\* comes near it.
usize_MAX == 2147483647

\* The four chained pagers, in the order of the chain() calls.
Categories == 1..4

CategoryName(c) ==
    CASE c = 1 -> "server_key_generation_tasks"
      [] c = 2 -> "server_key_retrieval_tasks"
      [] c = 3 -> "document_key_store_tasks"
      [] c = 4 -> "document_key_shadow_retrieval_tasks"

\* Lengths of the pages the blockchain may answer with: empty, one less than a
\* window, a full window, more than a window.
PageLens == {0, PENDING_RANGE_LENGTH - 1, PENDING_RANGE_LENGTH, PENDING_RANGE_LENGTH + 1}

\* Option<BlockchainServiceTask>
None == [kind |-> "None", task |-> <<>>]
Some(task) == [kind |-> "Some", task |-> task]

VARIABLES
    started,    \* pending_tasks() has been called: the chained iterator exists
    pagers,     \* the four PendingTasksIterator: [pending, range]
    cur,        \* the pager the chain is pulling from (earlier ones are dropped)
    queries,    \* per category, the windows get_pending_tasks was called with
    results,    \* per category, the Result each of these calls returned
    ended,      \* per category, its pager's next() has returned None
    yielded,    \* the tasks the chained iterator has returned, in order
    ret,        \* what the latest next() of the chained iterator returned
    calls,      \* the publish calls made on the SubstrateTransactionPool
    pool,       \* the calls submit_transaction received, in order
    block_events,   \* the events of the block new_tasks() was called on
    consumed,       \* how many of them the iterator of new_tasks() has taken
    new_yielded,    \* the tasks the iterator of new_tasks() has returned
    new_ret,        \* what its latest next() returned, or that it panicked
    other           \* the iterator of an earlier pending_tasks(), still alive

vars == <<started, pagers, cur, queries, results, ended, yielded, ret, calls, pool,
          block_events, consumed, new_yielded, new_ret, other>>
eventVars == <<block_events, consumed, new_yielded, new_ret>>
scanVars == <<started, pagers, cur, queries, results, ended, yielded, ret, other>>
poolVars == <<calls, pool>>

\* ------------------------------------------------------------- the blockchain

\* A task of the backlog of category c: the index it has in the backlog.
Task(c, index) == <<c, index>>

\* What the blockchain answers one paged query with: an error, or a page length.
\* full_pages is the number of full pages it has answered in this scan.
Answers(c, full_pages) ==
    {[ok |-> FALSE, n |-> 0]}
    \cup {[ok |-> TRUE, n |-> n] :
            n \in {m \in PageLens : m = PENDING_RANGE_LENGTH => full_pages < MaxWindows}}

\* The number of full pages among the results of a scan's queries.
FullPages(rs) ==
    Cardinality({cj \in Categories \X (1..(MaxWindows + 1)) :
                   /\ cj[2] <= Len(rs[cj[1]])
                   /\ Len(rs[cj[1]][cj[2]].tasks) = PENDING_RANGE_LENGTH})

\* Blockchain::*_tasks(block_hash, range): Err, or the answer.n tasks that start
\* at range.start.
get_pending_tasks(c, pending_range, answer) ==
    IF answer.ok
    THEN [ok |-> TRUE,
          tasks |-> [i \in 1..answer.n |-> Task(c, pending_range.start + i - 1)]]
    ELSE [ok |-> FALSE, tasks |-> <<>>]

\* ------------------------------------------------------- PendingTasksIterator

\* PendingTasksIterator { pending: VecDeque::new(), range: 0..std::usize::MAX, .. }
NewPendingTasksIterator ==
    [pending |-> <<>>, range |-> [start |-> 0, end |-> usize_MAX]]

\* Mutant of range_after: a full page leaves the range where it was.
range_after_same(self, pending, next_range_start) ==
    IF Len(pending) = PENDING_RANGE_LENGTH
    THEN self.range
    ELSE [start |-> self.range.end, end |-> self.range.end]

\* Mutant of range_after: a page that added nothing leaves the range where it
\* was, so that the window is asked for again.
range_after_retry(self, pending, next_range_start) ==
    IF Len(pending) = PENDING_RANGE_LENGTH
    THEN [start |-> next_range_start, end |-> self.range.end]
    ELSE IF Len(pending) = 0
    THEN self.range
    ELSE [start |-> self.range.end, end |-> self.range.end]

\* Mutant of range_after: the range advances on a buffer of at least
\* PENDING_RANGE_LENGTH tasks.
range_after_at_least(self, pending, next_range_start) ==
    IF Len(pending) >= PENDING_RANGE_LENGTH
    THEN [start |-> next_range_start, end |-> self.range.end]
    ELSE [start |-> self.range.end, end |-> self.range.end]

\* The range after a page was taken in: advance by a window on a buffer of
\* exactly PENDING_RANGE_LENGTH tasks, empty otherwise.
range_after(self, pending, next_range_start) ==
    IF Len(pending) = PENDING_RANGE_LENGTH
    THEN [start |-> next_range_start, end |-> self.range.end]
    ELSE [start |-> self.range.end, end |-> self.range.end]

\* Mutant of pending_after: the page is taken in twice.
pending_after_twice(self, result) ==
    IF result.ok THEN self.pending \o result.tasks \o result.tasks ELSE self.pending

\* Mutant of pending_after: the first task of a page is lost.
pending_after_drop(self, result) ==
    IF result.ok /\ result.tasks # <<>>
    THEN self.pending \o Tail(result.tasks)
    ELSE self.pending

\* The buffer after the match on the query's result: Ok extends it, Err logs.
pending_after(self, result) ==
    IF result.ok THEN self.pending \o result.tasks ELSE self.pending

\* Mutant of pop_front: the buffer is emptied from its back.
pop_back(pending) ==
    [item |-> pending[Len(pending)], rest |-> SubSeq(pending, 1, Len(pending) - 1)]

\* self.pending.pop_front() on a buffer that is not empty.
pop_front(pending) ==
    [item |-> Head(pending), rest |-> Tail(pending)]

\* Mutant of return_none: an exhausted pager starts over.
return_none_restart(self) ==
    [self |-> NewPendingTasksIterator, item |-> None]

\* if self.range.start == self.range.end { return None; }: the pager is left as
\* it is.
return_none(self) ==
    [self |-> self, item |-> None]

\* One pass of the loop of next(). answers holds the answers the blockchain still
\* has for this call; asked and got collect the windows queried and the results.
\* item is Some(task) or None, or of kind "Loop" when the loop asks for a page
\* after the answers of this call are used up.
RECURSIVE next_loop(_, _, _, _, _)
next_loop(self, c, answers, asked, got) ==
    IF self.pending # <<>>
    THEN [self |-> [self EXCEPT !.pending = pop_front(self.pending).rest],
          item |-> Some(pop_front(self.pending).item), asked |-> asked, got |-> got]
    ELSE IF self.range.start = self.range.end
    THEN [self |-> return_none(self).self, item |-> return_none(self).item,
          asked |-> asked, got |-> got]
    ELSE IF answers = <<>>
    THEN [self |-> self, item |-> [kind |-> "Loop", task |-> <<>>], asked |-> asked, got |-> got]
    ELSE LET next_range_start == self.range.start + PENDING_RANGE_LENGTH
             pending_range == [start |-> self.range.start, end |-> next_range_start]
             result == get_pending_tasks(c, pending_range, Head(answers))
             pending == pending_after(self, result)
             range == range_after(self, pending, next_range_start)
         IN next_loop([pending |-> pending, range |-> range], c, Tail(answers),
                      Append(asked, pending_range), Append(got, result))

\* PendingTasksIterator::next
next(self, c, answer) == next_loop(self, c, <<answer>>, <<>>, <<>>)

\* ------------------------------------------------ SubstrateBlock::pending_tasks

\* The state of the chained iterator, as one value.
ChainState ==
    [pagers |-> pagers, cur |-> cur, queries |-> queries, results |-> results,
     ended |-> ended]

\* Mutant of chain_after: document-key store is chained before server-key
\* retrieval.
chain_after_swapped(c) ==
    CASE c = 1 -> 3
      [] c = 3 -> 2
      [] c = 2 -> 4
      [] OTHER -> c

\* Mutant of chain_after: the chain ends with its first pager.
chain_after_none(c) == c

\* The pager Chain::next pulls from after pager c returned None: the next one of
\* the chain, the last one staying in place.
chain_after(c) == IF c < 4 THEN c + 1 ELSE c

\* Chain::next over the four pagers: pull from the current pager; on None drop it
\* and pull from the one chained after it. The set of outcomes, one per answer of
\* the blockchain to the queries made on the way.
RECURSIVE chain_next(_)
chain_next(st) ==
    LET c == st.cur
        outs == {next(st.pagers[c], c, a) : a \in Answers(c, FullPages(st.results))}
    IN UNION {
         LET st2 == [pagers  |-> [st.pagers EXCEPT ![c] = o.self],
                     cur     |-> st.cur,
                     queries |-> [st.queries EXCEPT ![c] = @ \o o.asked],
                     results |-> [st.results EXCEPT ![c] = @ \o o.got],
                     ended   |-> [st.ended EXCEPT ![c] = @ \/ o.item = None]]
         IN IF o.item = None /\ chain_after(c) # c
            THEN chain_next([st2 EXCEPT !.cur = chain_after(c)])
            ELSE {[st |-> st2, item |-> o.item]}
         : o \in outs}

\* The iterator pending_tasks() returns, as one value: the one of the variables.
ThisScan ==
    [started |-> started, pagers |-> pagers, cur |-> cur, queries |-> queries,
     results |-> results, ended |-> ended, yielded |-> yielded, ret |-> ret]

\* No iterator: the value of the variables before pending_tasks() is called.
NoScan ==
    [started |-> FALSE, pagers |-> [c \in Categories |-> NewPendingTasksIterator],
     cur |-> 1, queries |-> [c \in Categories |-> <<>>],
     results |-> [c \in Categories |-> <<>>],
     ended |-> [c \in Categories |-> FALSE], yielded |-> <<>>,
     ret |-> [kind |-> "Idle", task |-> <<>>]]

\* Mutant of pending_tasks_pagers: the pagers of the call before are used again.
pending_tasks_pagers_kept == pagers

\* The four PendingTasksIterator pending_tasks() builds.
pending_tasks_pagers == [c \in Categories |-> NewPendingTasksIterator]

\* SubstrateBlock::pending_tasks: four fresh pagers, chained in category order.
pending_tasks ==
    /\ started' = TRUE
    /\ pagers' = pending_tasks_pagers
    /\ cur' = 1
    /\ queries' = [c \in Categories |-> <<>>]
    /\ results' = [c \in Categories |-> <<>>]
    /\ ended' = [c \in Categories |-> FALSE]
    /\ yielded' = <<>>
    /\ ret' = [kind |-> "Idle", task |-> <<>>]
    /\ UNCHANGED <<poolVars, eventVars, other>>

\* The consumer pulls one item from the iterator pending_tasks() returned.
pending_tasks_next ==
    /\ started
    /\ \E o \in chain_next(ChainState) :
          /\ pagers' = o.st.pagers
          /\ cur' = o.st.cur
          /\ queries' = o.st.queries
          /\ results' = o.st.results
          /\ ended' = o.st.ended
          /\ yielded' = IF o.item.kind = "Some" THEN Append(yielded, o.item.task)
                        ELSE yielded
          /\ ret' = o.item
    /\ UNCHANGED <<started, poolVars, eventVars, other>>

\* SubstrateBlock::pending_tasks called while the caller keeps the iterator of the
\* call before: that one lives on as other.
pending_tasks_live ==
    /\ started
    /\ other' = ThisScan
    /\ started' = TRUE
    /\ pagers' = pending_tasks_pagers
    /\ cur' = 1
    /\ queries' = [c \in Categories |-> <<>>]
    /\ results' = [c \in Categories |-> <<>>]
    /\ ended' = [c \in Categories |-> FALSE]
    /\ yielded' = <<>>
    /\ ret' = [kind |-> "Idle", task |-> <<>>]
    /\ UNCHANGED <<poolVars, eventVars>>

\* The consumer pulls from the latest iterator while another one is alive.
live_next ==
    /\ Len(yielded) + Len(other.yielded) < MaxPulled
    /\ pending_tasks_next

\* The consumer pulls one item from the iterator of the earlier call.
other_next ==
    /\ other.started
    /\ Len(yielded) + Len(other.yielded) < MaxPulled
    /\ \E o \in chain_next([pagers |-> other.pagers, cur |-> other.cur,
                            queries |-> other.queries, results |-> other.results,
                            ended |-> other.ended]) :
          other' = [started |-> TRUE,
                    pagers |-> o.st.pagers, cur |-> o.st.cur,
                    queries |-> o.st.queries, results |-> o.st.results,
                    ended |-> o.st.ended,
                    yielded |-> IF o.item.kind = "Some"
                                THEN Append(other.yielded, o.item.task)
                                ELSE other.yielded,
                    ret |-> o.item]
    /\ UNCHANGED <<started, pagers, cur, queries, results, ended, yielded, ret,
                   poolVars, eventVars>>

\* --------------------------------------------------- SubstrateTransactionPool

\* ServerKeyId values, the public keys of the artifacts, and the address the
\* SubstrateTransactionPool was built with (key_server_address).
ServerKeyIds == {1, 2}
Publics == {"pk1", "pk2"}
key_server_address == "self"
NoKey == "-"

\* Result<bool, String> of the "is response required" query.
RequiredResults ==
    {[ok |-> TRUE, value |-> TRUE], [ok |-> TRUE, value |-> FALSE],
     [ok |-> FALSE, value |-> FALSE]}

\* Result<TransactionHash, String> of TransactionPool::submit_transaction.
SubmitResults == {[ok |-> TRUE, hash |-> "0xabc"], [ok |-> FALSE, hash |-> "-"]}

\* SecretStoreCall
SecretStoreCall(variant, key_id, key) ==
    [variant |-> variant, key_id |-> key_id, key |-> key]

\* Mutant of goes_on_after_check: the Ok(false) arm does not return.
goes_on_always(required) == TRUE

\* Mutant of goes_on_after_check: the arms of Ok(true) and Ok(false) are swapped.
goes_on_swapped(required) ==
    IF required.ok THEN ~required.value ELSE TRUE

\* Mutant of goes_on_after_check: Ok(true) returns as Ok(false) does.
goes_on_never_on_ok(required) == ~required.ok

\* The match on is_response_required(): Ok(true) goes on, Ok(false) returns, and
\* the Err arm is the error!() expression alone, after which the function goes on.
goes_on_after_check(required) ==
    IF required.ok THEN required.value ELSE TRUE

\* The error!() of the Err arm of the first match.
check_log(format_request, required) ==
    IF required.ok THEN <<>>
    ELSE <<[level |-> "error", text |-> "Failed to check if response is required",
            request |-> format_request, hash |-> "-"]>>

\* Mutant of submitted_by: the transaction is submitted though its preparation
\* failed.
submitted_by_unprepared(prepared, submit_result) == <<prepared.call>>

\* Mutant of submitted_by: a failed submission is tried once more.
submitted_by_retry(prepared, submit_result) ==
    IF ~prepared.ok THEN <<>>
    ELSE IF submit_result.ok THEN <<prepared.call>>
    ELSE <<prepared.call, prepared.call>>

\* prepare_response().and_then(|transaction| submit_transaction(transaction)):
\* the calls submit_transaction receives, whatever it answers.
submitted_by(prepared, submit_result) ==
    IF prepared.ok THEN <<prepared.call>> ELSE <<>>

\* Mutant of submit_log: a failed submission is unwrapped.
submit_log_unwrap(format_request, prepared, submit_result) ==
    IF prepared.ok /\ submit_result.ok
    THEN <<[level |-> "trace", text |-> "Submitted response",
            request |-> format_request, hash |-> submit_result.hash]>>
    ELSE <<[level |-> "panic", text |-> "Failed to submit response",
            request |-> format_request, hash |-> "-"]>>

\* The match on submit_result: trace!() on Ok, error!() on Err.
submit_log(format_request, prepared, submit_result) ==
    IF prepared.ok /\ submit_result.ok
    THEN <<[level |-> "trace", text |-> "Submitted response",
            request |-> format_request, hash |-> submit_result.hash]>>
    ELSE <<[level |-> "error", text |-> "Failed to submit response",
            request |-> format_request, hash |-> "-"]>>

\* SubstrateTransactionPool::submit_response_transaction. check is the query the
\* closure is_response_required makes and the result it gets, prepare_response the
\* result of the closure, submit_result the pool's answer if it is asked.
\* steps lists, in order, what the call invoked; answers, what submit_transaction
\* answered each time it was called.
submit_response_transaction(format_request, check, prepare_response, submit_result) ==
    LET required == check.result
        submitted == submitted_by(prepare_response, submit_result)
    IN IF ~goes_on_after_check(required)
       THEN [steps |-> <<"is_response_required">>,
             log |-> check_log(format_request, required),
             submitted |-> <<>>, answers |-> <<>>]
       ELSE [steps |-> <<"is_response_required", "prepare_response">>
                       \o [i \in 1..Len(submitted) |-> "submit_transaction"],
             log |-> check_log(format_request, required)
                     \o submit_log(format_request, prepare_response, submit_result),
             submitted |-> submitted,
             answers |-> [i \in 1..Len(submitted) |-> submit_result]]

\* The closure || self.blockchain.is_*_response_required(key_id, self.key_server_address)
IsResponseRequired(query, key_id, result) ==
    [query |-> query, key_id |-> key_id, key_server_id |-> key_server_address,
     result |-> result]

\* How a call ends: it returns, unless a line of its log is a panic message.
outcome_of(log) ==
    IF \E i \in 1..Len(log) : log[i].level = "panic" THEN "panicked" ELSE "returned"

\* One call of the response-publishing contract, as it is recorded in calls.
Called(op, key_id, is_response_required, prepare_response, done) ==
    [op |-> op, key_id |-> key_id,
     check |-> is_response_required,
     prepared |-> prepare_response,
     steps |-> done.steps, log |-> done.log,
     submitted |-> done.submitted, answers |-> done.answers,
     outcome |-> outcome_of(done.log)]

publish_generated_server_key ==
    \E key_id \in ServerKeyIds, key \in Publics,
       required \in RequiredResults, submit_result \in SubmitResults :
      LET format_request == <<"ServerKeyGenerationSuccess", key_id>>
          check == IsResponseRequired("is_server_key_generation_response_required",
                                      key_id, required)
          prepare == [ok |-> TRUE,
                      call |-> SecretStoreCall("ServerKeyGenerated", key_id, key)]
          done == submit_response_transaction(format_request, check, prepare,
                                              submit_result)
      IN /\ Len(calls) < MaxCalls
         /\ calls' = Append(calls, Called("publish_generated_server_key", key_id, check, prepare, done))
         /\ pool' = pool \o done.submitted
         /\ UNCHANGED <<scanVars, eventVars>>

publish_server_key_generation_error ==
    \E key_id \in ServerKeyIds,
       required \in RequiredResults, submit_result \in SubmitResults :
      LET format_request == <<"ServerKeyGenerationFailure", key_id>>
          check == IsResponseRequired("is_server_key_generation_response_required",
                                      key_id, required)
          prepare == [ok |-> TRUE,
                      call |-> SecretStoreCall("ServerKeyGenerationError", key_id, NoKey)]
          done == submit_response_transaction(format_request, check, prepare,
                                              submit_result)
      IN /\ Len(calls) < MaxCalls
         /\ calls' = Append(calls, Called("publish_server_key_generation_error", key_id, check, prepare, done))
         /\ pool' = pool \o done.submitted
         /\ UNCHANGED <<scanVars, eventVars>>

publish_retrieved_server_key ==
    \E key_id \in ServerKeyIds, key \in Publics,
       required \in RequiredResults, submit_result \in SubmitResults :
      LET format_request == <<"ServerKeyRetrievalSuccess", key_id>>
          check == IsResponseRequired("is_server_key_retrieval_response_required",
                                      key_id, required)
          prepare == [ok |-> TRUE,
                      call |-> SecretStoreCall("ServerKeyRetrieved", key_id, key)]
          done == submit_response_transaction(format_request, check, prepare,
                                              submit_result)
      IN /\ Len(calls) < MaxCalls
         /\ calls' = Append(calls, Called("publish_retrieved_server_key", key_id, check, prepare, done))
         /\ pool' = pool \o done.submitted
         /\ UNCHANGED <<scanVars, eventVars>>

publish_server_key_retrieval_error ==
    \E key_id \in ServerKeyIds,
       required \in RequiredResults, submit_result \in SubmitResults :
      LET format_request == <<"ServerKeyRetrievalFailure", key_id>>
          check == IsResponseRequired("is_server_key_retrieval_response_required",
                                      key_id, required)
          prepare == [ok |-> TRUE,
                      call |-> SecretStoreCall("ServerKeyRetrievalError", key_id, NoKey)]
          done == submit_response_transaction(format_request, check, prepare,
                                              submit_result)
      IN /\ Len(calls) < MaxCalls
         /\ calls' = Append(calls, Called("publish_server_key_retrieval_error", key_id, check, prepare, done))
         /\ pool' = pool \o done.submitted
         /\ UNCHANGED <<scanVars, eventVars>>

\* submit_response_transaction with closures of any outcome: the function takes
\* prepare_response as a parameter, and it may return Err.
submit_response_transaction_any ==
    \E key_id \in ServerKeyIds,
       required \in RequiredResults, submit_result \in SubmitResults,
       prepared_ok \in BOOLEAN :
      LET format_request == <<"Response", key_id>>
          check == IsResponseRequired("is_response_required", key_id, required)
          prepare == [ok |-> prepared_ok,
                      call |-> SecretStoreCall("Response", key_id, NoKey)]
          done == submit_response_transaction(format_request, check, prepare,
                                              submit_result)
      IN /\ Len(calls) < MaxCalls
         /\ calls' = Append(calls, Called("submit_response_transaction", key_id, check, prepare, done))
         /\ pool' = pool \o done.submitted
         /\ UNCHANGED <<scanVars, eventVars>>

\* Mutant of unimplemented: the body is empty and the call returns.
unimplemented_noop ==
    [steps |-> <<>>, log |-> <<>>, submitted |-> <<>>, answers |-> <<>>]

\* unimplemented!(): the call panics with "not implemented", having done nothing.
unimplemented ==
    [steps |-> <<>>,
     log |-> <<[level |-> "panic", text |-> "not implemented", request |-> <<>>,
                hash |-> "-"]>>,
     submitted |-> <<>>, answers |-> <<>>]

\* What a call that makes no "is response required" query and prepares no
\* payload has in the check and prepared fields of its record.
Unasked(key_id) ==
    [query |-> "-", key_id |-> key_id, key_server_id |-> "-",
     result |-> [ok |-> FALSE, value |-> TRUE]]
Unprepared(key_id) == [ok |-> FALSE, call |-> SecretStoreCall("-", key_id, NoKey)]

publish_stored_document_key ==
    \E key_id \in ServerKeyIds :
      /\ Len(calls) < MaxCalls
      /\ calls' = Append(calls, Called("publish_stored_document_key", key_id, Unasked(key_id),
                                       Unprepared(key_id), unimplemented))
      /\ pool' = pool \o unimplemented.submitted
      /\ UNCHANGED <<scanVars, eventVars>>

publish_document_key_store_error ==
    \E key_id \in ServerKeyIds :
      /\ Len(calls) < MaxCalls
      /\ calls' = Append(calls, Called("publish_document_key_store_error", key_id, Unasked(key_id),
                                       Unprepared(key_id), unimplemented))
      /\ pool' = pool \o unimplemented.submitted
      /\ UNCHANGED <<scanVars, eventVars>>

publish_retrieved_document_key_common ==
    \E key_id \in ServerKeyIds :
      /\ Len(calls) < MaxCalls
      /\ calls' = Append(calls, Called("publish_retrieved_document_key_common", key_id, Unasked(key_id),
                                       Unprepared(key_id), unimplemented))
      /\ pool' = pool \o unimplemented.submitted
      /\ UNCHANGED <<scanVars, eventVars>>

publish_document_key_common_retrieval_error ==
    \E key_id \in ServerKeyIds :
      /\ Len(calls) < MaxCalls
      /\ calls' = Append(calls, Called("publish_document_key_common_retrieval_error", key_id, Unasked(key_id),
                                       Unprepared(key_id), unimplemented))
      /\ pool' = pool \o unimplemented.submitted
      /\ UNCHANGED <<scanVars, eventVars>>

publish_retrieved_document_key_personal ==
    \E key_id \in ServerKeyIds :
      /\ Len(calls) < MaxCalls
      /\ calls' = Append(calls, Called("publish_retrieved_document_key_personal", key_id, Unasked(key_id),
                                       Unprepared(key_id), unimplemented))
      /\ pool' = pool \o unimplemented.submitted
      /\ UNCHANGED <<scanVars, eventVars>>

publish_document_key_personal_retrieval_error ==
    \E key_id \in ServerKeyIds :
      /\ Len(calls) < MaxCalls
      /\ calls' = Append(calls, Called("publish_document_key_personal_retrieval_error", key_id, Unasked(key_id),
                                       Unprepared(key_id), unimplemented))
      /\ pool' = pool \o unimplemented.submitted
      /\ UNCHANGED <<scanVars, eventVars>>

\* -------------------------------------------------- SubstrateBlock::new_tasks

\* The requester addresses and thresholds of the events.
Addresses == {"a1", "a2"}
Thresholds == {0, 1}

\* Address::default(), the origin event_into_task gives every task.
DefaultOrigin == "0x00"

\* Blockchain::Event: an event of another runtime module, or a SecretStoreEvent:
\* ServerKeyGenerationRequested(key_id, requester_address, threshold) or one of
\* the other variants of the runtime's Event.
BlockchainEvent(secret_store, kind, key_id, requester, threshold) ==
    [secret_store |-> secret_store, kind |-> kind, key_id |-> key_id,
     requester |-> requester, threshold |-> threshold]

BlockchainEvents ==
    {BlockchainEvent(FALSE, "Balances", 0, "-", 0),
     BlockchainEvent(TRUE, "ServerKeyRetrievalRequested", 1, "a1", 0),
     BlockchainEvent(TRUE, "ServerKeyGenerationRequested", 1, "a1", 0),
     BlockchainEvent(TRUE, "ServerKeyGenerationRequested", 2, "a2", 1)}

\* Blockchain::block_events(block_hash): the events of a block.
BlockEvents == UNION {[1..n -> BlockchainEvents] : n \in 0..MaxEvents}

\* MaybeSecretStoreEvent::as_secret_store_event
as_secret_store_event(event) ==
    IF event.secret_store
    THEN [kind |-> "Some", event |-> event]
    ELSE [kind |-> "None", event |-> event]

\* threshold as _: the threshold of the event widened to the usize of the task.
as_usize(n) == IF n <= usize_MAX THEN n ELSE n - usize_MAX - 1

\* BlockchainServiceTask::Regular(origin, ServiceTask::GenerateServerKey(key_id,
\* Requester::Address(requester_address), threshold))
GenerateServerKey(origin, key_id, requester_address, threshold) ==
    [task |-> "GenerateServerKey", origin |-> origin, key_id |-> key_id,
     requester |-> [kind |-> "Address", address |-> requester_address],
     threshold |-> threshold]

\* Mutant of event_into_task: the requester and the threshold of the event are
\* not passed on.
event_into_task_defaults(event) ==
    IF event.kind = "ServerKeyGenerationRequested"
    THEN Some(GenerateServerKey(DefaultOrigin, event.key_id, "a1", 0))
    ELSE [kind |-> "Panic", task |-> <<>>]

\* event_into_task: the one supported event gives its task; the arm of every
\* other event is unimplemented!().
event_into_task(event) ==
    IF event.kind = "ServerKeyGenerationRequested"
    THEN Some(GenerateServerKey(DefaultOrigin, event.key_id, event.requester,
                                as_usize(event.threshold)))
    ELSE [kind |-> "Panic", task |-> <<>>]

\* next() of block_events(..).filter_map(as_secret_store_event)
\* .filter_map(event_into_task): take events until one gives a task, the events
\* end, or event_into_task panics. taken is the number of events taken so far.
RECURSIVE new_tasks_pull(_, _)
new_tasks_pull(events, taken) ==
    IF taken = Len(events)
    THEN [consumed |-> taken, item |-> None]
    ELSE LET event == as_secret_store_event(events[taken + 1])
             task == event_into_task(event.event)
         IN IF event.kind = "None" THEN new_tasks_pull(events, taken + 1)
            ELSE IF task.kind = "None" THEN new_tasks_pull(events, taken + 1)
            ELSE [consumed |-> taken + 1, item |-> task]

\* SubstrateBlock::new_tasks on a block: the lazy iterator over its events.
new_tasks ==
    /\ \E events \in BlockEvents : block_events' = events
    /\ consumed' = 0
    /\ new_yielded' = <<>>
    /\ new_ret' = [kind |-> "Idle", task |-> <<>>]
    /\ UNCHANGED <<scanVars, poolVars>>

\* The consumer pulls one item from the iterator new_tasks() returned; a panic
\* unwinds through the consumer, which pulls no more.
new_tasks_next ==
    /\ new_ret.kind \in {"Idle", "Some", "None"}
    /\ LET pulled == new_tasks_pull(block_events, consumed)
       IN /\ consumed' = pulled.consumed
          /\ new_yielded' = IF pulled.item.kind = "Some"
                            THEN Append(new_yielded, pulled.item.task)
                            ELSE new_yielded
          /\ new_ret' = pulled.item
    /\ UNCHANGED <<block_events, scanVars, poolVars>>

\* ------------------------------------------------------------ specifications

Init ==
    /\ started = FALSE
    /\ pagers = [c \in Categories |-> NewPendingTasksIterator]
    /\ cur = 1
    /\ queries = [c \in Categories |-> <<>>]
    /\ results = [c \in Categories |-> <<>>]
    /\ ended = [c \in Categories |-> FALSE]
    /\ yielded = <<>>
    /\ ret = [kind |-> "Idle", task |-> <<>>]
    /\ calls = <<>>
    /\ pool = <<>>
    /\ block_events = <<>>
    /\ consumed = 0
    /\ new_yielded = <<>>
    /\ new_ret = [kind |-> "NoIterator", task |-> <<>>]
    /\ other = NoScan

\* The backlog scan of one SubstrateBlock.
NextScan ==
    \/ pending_tasks
    \/ pending_tasks_next

\* The response-publishing calls on one SubstrateTransactionPool.
NextPool ==
    \/ publish_generated_server_key
    \/ publish_server_key_generation_error
    \/ publish_retrieved_server_key
    \/ publish_server_key_retrieval_error
    \/ submit_response_transaction_any
    \/ publish_stored_document_key
    \/ publish_document_key_store_error
    \/ publish_retrieved_document_key_common
    \/ publish_document_key_common_retrieval_error
    \/ publish_retrieved_document_key_personal
    \/ publish_document_key_personal_retrieval_error

\* The new tasks of one SubstrateBlock.
NextEvents ==
    \/ new_tasks
    \/ new_tasks_next

\* Two backlog scans of one SubstrateBlock that are alive together.
NextScans ==
    \/ pending_tasks
    \/ pending_tasks_live
    \/ live_next
    \/ other_next

Next == NextScan \/ NextPool \/ NextEvents \/ NextScans

Spec == Init /\ [][Next]_vars
SpecEvents == Init /\ [][NextEvents]_vars
SpecScans == Init /\ [][NextScans]_vars
SpecScan == Init /\ [][NextScan]_vars
SpecPool == Init /\ [][NextPool]_vars

\* -------------------------------------------------- claims: response submission

PublishOps ==
    {"publish_generated_server_key", "publish_server_key_generation_error",
     "publish_retrieved_server_key", "publish_server_key_retrieval_error"}

SuccessOps == {"publish_generated_server_key", "publish_retrieved_server_key"}

OkTrue == [ok |-> TRUE, value |-> TRUE]
OkFalse == [ok |-> TRUE, value |-> FALSE]

\* The number of times a call invoked step.
Times(call, step) == Cardinality({i \in 1..Len(call.steps) : call.steps[i] = step})

\* The call variant and the query that belong to each publish operation.
VariantOf(op) ==
    CASE op = "publish_generated_server_key" -> "ServerKeyGenerated"
      [] op = "publish_server_key_generation_error" -> "ServerKeyGenerationError"
      [] op = "publish_retrieved_server_key" -> "ServerKeyRetrieved"
      [] op = "publish_server_key_retrieval_error" -> "ServerKeyRetrievalError"

QueryOf(op) ==
    IF op \in {"publish_generated_server_key", "publish_server_key_generation_error"}
    THEN "is_server_key_generation_response_required"
    ELSE "is_server_key_retrieval_response_required"

\* C1: whenever the "is response required" query returns an error, the call stops
\* after logging: prepare_response is not invoked and submit_transaction is never
\* called during that call. (The code goes on to prepare and submit.)
C1_ErrorStopsCall ==
    \A i \in 1..Len(calls) :
        (Times(calls[i], "is_response_required") = 1 /\ ~calls[i].check.result.ok) =>
            /\ Times(calls[i], "prepare_response") = 0
            /\ Times(calls[i], "submit_transaction") = 0
            /\ calls[i].submitted = <<>>

\* C2: a server-key publish call whose "is response required" query, asked for
\* (key id, this key server's address), returns Ok(false) submits no transaction
\* and never prepares the payload; calls that all got Ok(false) leave the pool
\* empty.
C2_NotRequiredSubmitsNothing ==
    /\ \A i \in 1..Len(calls) :
          (calls[i].op \in PublishOps /\ calls[i].check.result = OkFalse) =>
              /\ calls[i].check.key_id = calls[i].key_id
              /\ calls[i].check.key_server_id = key_server_address
              /\ calls[i].submitted = <<>>
              /\ Times(calls[i], "prepare_response") = 0
              /\ Times(calls[i], "submit_transaction") = 0
    /\ (\A i \in 1..Len(calls) : calls[i].check.result = OkFalse) => pool = <<>>

C2_Witness ==
    \E i \in 1..Len(calls) :
        /\ calls[i].op = "publish_generated_server_key"
        /\ calls[i].key_id = 1
        /\ calls[i].check.result = OkFalse

\* C3: two publish calls in a row with the same successful outcome for the same
\* key id, the first check returning Ok(true) and the second Ok(false), make
\* exactly one submit_transaction call in total.
C3_SecondCallSubmitsNothing ==
    \A i \in 1..(Len(calls) - 1) :
        ( /\ calls[i].op \in SuccessOps
          /\ calls[i + 1].op = calls[i].op
          /\ calls[i + 1].key_id = calls[i].key_id
          /\ calls[i + 1].prepared = calls[i].prepared
          /\ calls[i].check.result = OkTrue
          /\ calls[i + 1].check.result = OkFalse ) =>
            /\ Len(calls[i].submitted) + Len(calls[i + 1].submitted) = 1
            /\ Times(calls[i], "submit_transaction")
                 + Times(calls[i + 1], "submit_transaction") = 1
            /\ (Len(calls) = 2) => Len(pool) = 1

C3_Witness ==
    /\ Len(calls) = 2
    /\ calls[1].op = "publish_retrieved_server_key"
    /\ calls[2].op = "publish_retrieved_server_key"
    /\ calls[1].key_id = calls[2].key_id
    /\ calls[1].prepared = calls[2].prepared
    /\ calls[1].check.result = OkTrue
    /\ calls[2].check.result = OkFalse
    /\ Len(pool) = 1

\* C4: one call invokes submit_transaction at most once, whatever the check, the
\* preparation and the submission return; a failed submission is not retried in
\* the same call. The pool never receives more transactions than calls were made.
C4_AtMostOneSubmission ==
    /\ \A i \in 1..Len(calls) :
          /\ Len(calls[i].submitted) <= 1
          /\ Times(calls[i], "submit_transaction") = Len(calls[i].submitted)
          /\ Len(calls[i].answers) = Len(calls[i].submitted)
    /\ Len(pool) <= Len(calls)

C4_Witness ==
    \E i \in 1..Len(calls) :
        /\ Len(calls[i].submitted) = 1
        /\ ~calls[i].answers[1].ok
        /\ \E j \in 1..Len(calls) :
              calls[j].op = "submit_response_transaction" /\ ~calls[j].prepared.ok

\* C5: a server-key publish call whose check returns Ok(true) submits exactly
\* one transaction, after the check: the call variant of that task kind and
\* outcome, with the key id the check was asked about; when the submission
\* succeeds, the one log line is the trace naming the returned handle.
C5_RequiredSubmitsOnce ==
    \A i \in 1..Len(calls) :
        (calls[i].op \in PublishOps /\ calls[i].check.result = OkTrue) =>
            /\ calls[i].steps =
                 <<"is_response_required", "prepare_response", "submit_transaction">>
            /\ Len(calls[i].submitted) = 1
            /\ Len(calls[i].answers) = 1
            /\ calls[i].submitted[1].variant = VariantOf(calls[i].op)
            /\ calls[i].submitted[1].key_id = calls[i].check.key_id
            /\ calls[i].check.key_id = calls[i].key_id
            /\ calls[i].check.query = QueryOf(calls[i].op)
            /\ calls[i].answers[1].ok =>
                  /\ Len(calls[i].log) = 1
                  /\ calls[i].log[1].level = "trace"
                  /\ calls[i].log[1].hash = calls[i].answers[1].hash

C5_Witness ==
    \E i \in 1..Len(calls) :
        /\ calls[i].op = "publish_server_key_retrieval_error"
        /\ calls[i].check.result = OkTrue
        /\ calls[i].answers = <<[ok |-> TRUE, hash |-> "0xabc"]>>
        /\ calls[i].submitted = <<SecretStoreCall("ServerKeyRetrievalError", 2, NoKey)>>
        /\ pool # <<>>

\* ------------------------------------------------------- claims: backlog scan

\* The tasks of category c the chained iterator has returned so far.
YieldedOf(c) == SelectSeq(yielded, LAMBDA t : t[1] = c)

\* The tasks of a sequence of query results, page after page.
RECURSIVE Flatten(_)
Flatten(rs) == IF rs = <<>> THEN <<>> ELSE Head(rs).tasks \o Flatten(Tail(rs))

\* Every answer the blockchain can give to one query.
AnyAnswer == {[ok |-> FALSE, n |-> 0]} \cup {[ok |-> TRUE, n |-> n] : n \in PageLens}

\* The queries of category c so far returned full pages for the first windows and
\* then one page of fewer than PENDING_RANGE_LENGTH tasks.
FullThenShort(c) ==
    /\ results[c] # <<>>
    /\ \A j \in 1..Len(results[c]) :
          /\ results[c][j].ok
          /\ j < Len(results[c]) => Len(results[c][j].tasks) = PENDING_RANGE_LENGTH
          /\ j = Len(results[c]) => Len(results[c][j].tasks) < PENDING_RANGE_LENGTH

\* k * W + s for such a category.
TotalOf(c) ==
    (Len(results[c]) - 1) * PENDING_RANGE_LENGTH + Len(results[c][Len(results[c])].tasks)

\* C6: when the paged query of a category returns W tasks for each of the first k
\* windows and s < W tasks for window k+1, the pager yields exactly k*W + s
\* tasks, page after page and in the order of each page, each task once, and then
\* signals the end of the sequence.
C6_YieldsAllPagesInOrder ==
    \A c \in Categories :
        FullThenShort(c) =>
            LET out == YieldedOf(c)
            IN /\ out \o pagers[c].pending = Flatten(results[c])
               /\ Len(out) + Len(pagers[c].pending) = TotalOf(c)
               /\ out = [i \in 1..Len(out) |-> Task(c, i - 1)]
               /\ ended[c] => Len(out) = TotalOf(c)
               /\ (Len(out) = TotalOf(c)) =>
                     \A a \in AnyAnswer :
                         /\ next(pagers[c], c, a).item = None
                         /\ next(pagers[c], c, a).asked = <<>>

C6_Witness ==
    /\ FullThenShort(2)
    /\ Len(results[2]) = 2
    /\ ended[2]
    /\ Len(YieldedOf(2)) = 2 * PENDING_RANGE_LENGTH - 1
    /\ FullThenShort(1)
    /\ Len(results[1]) = 1
    /\ YieldedOf(1) = <<>>

\* C7: the windows one pager requests are [0,W), [W,2W), [2W,3W), ... in this
\* order, whatever the queries return: no window is requested twice and none is
\* skipped.
C7_WindowsInOrder ==
    \A c \in Categories :
        /\ Len(results[c]) = Len(queries[c])
        /\ \A j \in 1..Len(queries[c]) :
              queries[c][j] = [start |-> (j - 1) * PENDING_RANGE_LENGTH,
                               end |-> j * PENDING_RANGE_LENGTH]

C7_Witness ==
    /\ Len(queries[3]) = 2
    /\ queries[3][2] = [start |-> PENDING_RANGE_LENGTH, end |-> 2 * PENDING_RANGE_LENGTH]
    /\ ~results[3][2].ok
    /\ ~results[1][1].ok

\* C8: a failed paged query is handled as an empty page: nothing is added to the
\* buffer, the remaining range becomes empty, the failed window is not asked for
\* again and the next() that made the query returns the end of the sequence.
C8_FailureIsEmptyPage ==
    \A c \in Categories :
        /\ \A j \in 1..Len(results[c]) :
              ~results[c][j].ok =>
                  /\ j = Len(results[c])
                  /\ ended[c]
                  /\ pagers[c].pending = <<>>
                  /\ pagers[c].range.start = pagers[c].range.end
                  /\ YieldedOf(c) = Flatten(results[c])
        /\ LET failed == next(pagers[c], c, [ok |-> FALSE, n |-> 0])
               empty == next(pagers[c], c, [ok |-> TRUE, n |-> 0])
           IN /\ failed.self = empty.self
              /\ failed.item = empty.item
              /\ failed.asked = empty.asked
              /\ failed.asked # <<>> =>
                    /\ failed.item = None
                    /\ failed.self.pending = <<>>
                    /\ failed.self.range.start = failed.self.range.end

C8_Witness ==
    /\ Len(results[1]) = 2
    /\ ~results[1][2].ok
    /\ Len(YieldedOf(1)) = PENDING_RANGE_LENGTH
    /\ ended[1]

\* C9: a pager that has signalled the end of the sequence does so on every later
\* next(), makes no further paged query and stays as it is.
C9_ExhaustedIsTerminal ==
    \A c \in Categories :
        ended[c] =>
            /\ pagers[c].range.start = pagers[c].range.end
            /\ \A a \in AnyAnswer :
                  LET later == next(pagers[c], c, a)
                  IN /\ later.item = None
                     /\ later.asked = <<>>
                     /\ later.self = pagers[c]

C9_Witness ==
    /\ \A c \in Categories : ended[c]
    /\ ret = None
    /\ Len(queries[4]) = 2
    /\ Len(YieldedOf(4)) = 2 * PENDING_RANGE_LENGTH - 1

\* C10: the sequence pending_tasks() produces is the concatenation of the four
\* pagers' outputs in the order server-key generation, server-key retrieval,
\* document-key store, document-key shadow retrieval: no task of a category
\* comes after a task of a later category.
C10_CategoriesInOrder ==
    LET out == [c \in Categories |-> YieldedOf(c)]
    IN /\ yielded = out[1] \o out[2] \o out[3] \o out[4]
       /\ \A i \in 1..(Len(yielded) - 1) : yielded[i][1] <= yielded[i + 1][1]
       /\ \A c \in Categories :
             /\ out[c] \o pagers[c].pending = Flatten(results[c])
             /\ out[c] # <<>> => \A b \in 1..(c - 1) : ended[b]

C10_Witness ==
    /\ \A c \in Categories : ended[c] /\ YieldedOf(c) # <<>>
    /\ Len(YieldedOf(1)) = PENDING_RANGE_LENGTH - 1
    /\ Len(YieldedOf(2)) = PENDING_RANGE_LENGTH + 1
    /\ Len(YieldedOf(3)) = 2 * PENDING_RANGE_LENGTH - 1
    /\ Len(YieldedOf(4)) = 2 * PENDING_RANGE_LENGTH + 1

\* The tasks of all the pages of category c but the latest.
EarlierPages(c) == Flatten(SubSeq(results[c], 1, Len(results[c]) - 1))

\* C14: the paged query is invoked only when the buffer is empty: all the tasks
\* of a fetched page are returned, first in first out, before the next window is
\* requested.
C14_BufferDrainedBeforeFetch ==
    \A c \in Categories :
        LET out == YieldedOf(c)
        IN /\ pagers[c].pending # <<>> =>
                 \A a \in AnyAnswer : next(pagers[c], c, a).asked = <<>>
           /\ out \o pagers[c].pending = Flatten(results[c])
           /\ results[c] # <<>> =>
                 /\ Len(out) >= Len(EarlierPages(c))
                 /\ Len(pagers[c].pending) <= Len(results[c][Len(results[c])].tasks)

C14_Witness ==
    /\ Len(queries[2]) = 2
    /\ Len(results[2][2].tasks) = PENDING_RANGE_LENGTH + 1
    /\ Len(YieldedOf(2)) = PENDING_RANGE_LENGTH + 3
    /\ Len(pagers[2].pending) = PENDING_RANGE_LENGTH - 2

\* C18: a category whose pager ended, on a short page or on a failed query, does
\* not hold back the categories after it: the next category is queried, from
\* window [0,W), by the next() that saw the end, and by none before it.
C18_NextCategoryFollows ==
    \A c \in Categories :
        c < 4 =>
            /\ ended[c] <=> queries[c + 1] # <<>>
            /\ queries[c + 1] # <<>> =>
                  queries[c + 1][1] = [start |-> 0, end |-> PENDING_RANGE_LENGTH]
            /\ ~ended[c] => /\ pagers[c + 1] = NewPendingTasksIterator
                            /\ YieldedOf(c + 1) = <<>>

C18_Witness ==
    /\ Len(results[4]) = 1
    /\ ~results[1][1].ok
    /\ Len(results[2]) = 2
    /\ Len(results[2][2].tasks) = PENDING_RANGE_LENGTH - 1
    /\ ended[2]
    /\ ~results[3][1].ok
    /\ Len(results[4][1].tasks) = PENDING_RANGE_LENGTH
    /\ Len(YieldedOf(4)) = 1

\* C19: a page of more than W tasks ends the category: all its tasks are yielded
\* in order and no further window is requested; every window but the latest of a
\* category returned exactly W tasks.
C19_OversizedPageEnds ==
    \A c \in Categories :
        /\ \A j \in 1..Len(results[c]) :
              j < Len(results[c]) =>
                  /\ results[c][j].ok
                  /\ Len(results[c][j].tasks) = PENDING_RANGE_LENGTH
        /\ (results[c] # <<>>
              /\ Len(results[c][Len(results[c])].tasks) > PENDING_RANGE_LENGTH) =>
              /\ pagers[c].range.start = pagers[c].range.end
              /\ YieldedOf(c) \o pagers[c].pending = Flatten(results[c])
              /\ pagers[c].pending = <<>> =>
                    \A a \in AnyAnswer :
                        /\ next(pagers[c], c, a).item = None
                        /\ next(pagers[c], c, a).asked = <<>>

C19_Witness ==
    /\ Len(results[3]) = 2
    /\ Len(results[3][2].tasks) = PENDING_RANGE_LENGTH + 1
    /\ ended[3]
    /\ Len(YieldedOf(3)) = 2 * PENDING_RANGE_LENGTH + 1
    /\ Len(results[1][1].tasks) = PENDING_RANGE_LENGTH + 1

\* C20: as long as every paged query of a category returned at most W tasks, the
\* buffer of its pager holds at most W tasks.
C20_BufferBounded ==
    \A c \in Categories :
        (\A j \in 1..Len(results[c]) : Len(results[c][j].tasks) <= PENDING_RANGE_LENGTH)
            => Len(pagers[c].pending) <= PENDING_RANGE_LENGTH

C20_Witness ==
    /\ Len(results[1]) = 2
    /\ Len(results[1][2].tasks) = PENDING_RANGE_LENGTH - 1
    /\ Len(results[2]) = 1
    /\ Len(results[2][1].tasks) = PENDING_RANGE_LENGTH
    /\ Len(pagers[2].pending) = PENDING_RANGE_LENGTH - 1
    /\ Len(YieldedOf(2)) = 1

\* ------------------------------------------------- claims: two scans alive

\* Iterator s of pending_tasks() has not been pulled from yet.
NotPulled(s) == s.started /\ s.ret.kind = "Idle"

\* Iterator s is as pending_tasks() builds it: four pagers with an empty buffer
\* and the whole range ahead, and no window requested.
FreshScan(s) ==
    \A c \in Categories :
        /\ s.pagers[c].pending = <<>>
        /\ s.pagers[c].range.start = 0
        /\ s.queries[c] = <<>>

\* The first window iterator s requested in each category is [0, W).
FirstWindowAtZero(s) ==
    \A c \in Categories :
        s.queries[c] # <<>>
            => s.queries[c][1] = [start |-> 0, end |-> PENDING_RANGE_LENGTH]

\* Iterator s went on from where it started: a window was requested, and a
\* category was ended by an error or a page is half consumed.
Progressed(s) ==
    /\ s.started
    /\ \E c \in Categories :
          /\ s.queries[c] # <<>>
          /\ \/ s.pagers[c].pending # <<>>
             \/ ~s.results[c][Len(s.results[c])].ok
             \/ s.pagers[c].range.start > 0

\* C12: every pending_tasks() builds four fresh pagers, with an empty buffer and
\* the range starting at 0, so that the first window requested in each category
\* is [0, W) however far the scan of an earlier call went (completed, cut by an
\* error or abandoned mid-way); and a pull from one of two live scans changes
\* neither the buffers nor the ranges of the other one.
C12_EveryScanStartsFresh ==
    /\ [](/\ NotPulled(ThisScan) => FreshScan(ThisScan)
          /\ NotPulled(other) => FreshScan(other)
          /\ FirstWindowAtZero(ThisScan)
          /\ FirstWindowAtZero(other))
    /\ [][/\ (ThisScan' # ThisScan /\ ret'.kind # "Idle") => other' = other
          /\ (other' # other /\ ret'.kind # "Idle") => ThisScan' = ThisScan]_vars

\* The scan of the earlier call was abandoned with a page half consumed and its
\* range moved on; the scan of the later call saw an error in its first category
\* and asked for the first window of the next one.
C12_Witness ==
    /\ Progressed(other)
    /\ Len(other.pagers[1].pending) = PENDING_RANGE_LENGTH - 1
    /\ other.pagers[1].range.start = PENDING_RANGE_LENGTH
    /\ Len(results[1]) = 1
    /\ ~results[1][1].ok
    /\ Len(queries[2]) = 1
    /\ queries[2][1].start = 0
    /\ Len(yielded) = 1

\* ------------------------------------------- claims: errors of the submission

DocumentOps ==
    {"publish_stored_document_key", "publish_document_key_store_error",
     "publish_retrieved_document_key_common",
     "publish_document_key_common_retrieval_error",
     "publish_retrieved_document_key_personal",
     "publish_document_key_personal_retrieval_error"}

\* The transactions the calls submitted, call after call.
RECURSIVE SubmittedBy(_)
SubmittedBy(cs) == IF cs = <<>> THEN <<>> ELSE Head(cs).submitted \o SubmittedBy(Tail(cs))

\* The call failed: it logged an error.
Failed(call) == \E k \in 1..Len(call.log) : call.log[k].level = "error"

\* C13: a server-key publish call returns normally whatever the check, the
\* preparation and the submission return, logging its failures; and a call does
\* what its own inputs decide, whatever the calls before it did: the pool holds
\* what each call submitted and nothing else.
C13_FailuresNotPropagated ==
    /\ \A i \in 1..Len(calls) :
          calls[i].op \notin DocumentOps =>
              /\ calls[i].outcome = "returned"
              /\ \A k \in 1..Len(calls[i].log) :
                    calls[i].log[k].level \in {"error", "trace"}
              /\ (calls[i].answers # <<>> /\ ~calls[i].answers[1].ok) => Failed(calls[i])
              /\ ~calls[i].check.result.ok => Failed(calls[i])
              /\ calls[i].check.result = OkFalse => calls[i].submitted = <<>>
              /\ calls[i].check.result = OkTrue =>
                    calls[i].submitted =
                        IF calls[i].prepared.ok THEN <<calls[i].prepared.call>> ELSE <<>>
    /\ pool = SubmittedBy(calls)

C13_Witness ==
    /\ Len(calls) = 2
    /\ calls[1].op = "publish_generated_server_key"
    /\ calls[1].check.result = OkTrue
    /\ Len(calls[1].answers) = 1
    /\ ~calls[1].answers[1].ok
    /\ Failed(calls[1])
    /\ calls[1].outcome = "returned"
    /\ calls[2].op = calls[1].op
    /\ calls[2].key_id = calls[1].key_id
    /\ calls[2].check.result = OkTrue
    /\ Len(calls[2].answers) = 1
    /\ calls[2].answers[1].ok
    /\ ~Failed(calls[2])
    /\ Len(pool) = 2

\* C15: when the check returned Ok(true) and preparing the payload fails, the
\* call logs the failure and stops: submit_transaction is not called.
C15_PrepareFailureStops ==
    \A i \in 1..Len(calls) :
        ( /\ Times(calls[i], "is_response_required") = 1
          /\ calls[i].check.result = OkTrue
          /\ ~calls[i].prepared.ok ) =>
            /\ calls[i].steps = <<"is_response_required", "prepare_response">>
            /\ calls[i].submitted = <<>>
            /\ calls[i].answers = <<>>
            /\ Len(calls[i].log) = 1
            /\ calls[i].log[1].level = "error"
            /\ calls[i].log[1].text = "Failed to submit response"
            /\ calls[i].outcome = "returned"

C15_Witness ==
    \E i \in 1..Len(calls) :
        /\ calls[i].op = "submit_response_transaction"
        /\ calls[i].check.result = OkTrue
        /\ ~calls[i].prepared.ok
        /\ calls[i].key_id = 2
        /\ pool = <<>>

\* C16: each of the six document-key response operations panics when it is
\* invoked: it does not return, makes no "is response required" query and
\* submits no transaction.
C16_DocumentKeyOpsPanic ==
    \A i \in 1..Len(calls) :
        calls[i].op \in DocumentOps =>
            /\ calls[i].outcome = "panicked"
            /\ calls[i].steps = <<>>
            /\ calls[i].submitted = <<>>
            /\ calls[i].answers = <<>>
            /\ (\A j \in 1..Len(calls) : calls[j].op \in DocumentOps) => pool = <<>>

C16_Witness ==
    /\ Len(calls) = 2
    /\ calls[1].op = "publish_stored_document_key"
    /\ calls[2].op = "publish_document_key_personal_retrieval_error"
    /\ calls[1].outcome = "panicked"
    /\ calls[2].outcome = "panicked"
    /\ pool = <<>>

\* ---------------------------------------------------------- claims: new tasks

\* The event is the one supported kind of SecretStoreEvent.
IsGenerationRequest(e) == e.secret_store /\ e.kind = "ServerKeyGenerationRequested"

\* The tasks a sequence of events stands for: one generate-server-key task per
\* "server key generation requested" event, in the order of the events.
RECURSIVE ExpectedNewTasks(_)
ExpectedNewTasks(events) ==
    IF events = <<>> THEN <<>>
    ELSE LET e == Head(events)
         IN (IF IsGenerationRequest(e)
             THEN <<[task |-> "GenerateServerKey", origin |-> DefaultOrigin,
                     key_id |-> e.key_id,
                     requester |-> [kind |-> "Address", address |-> e.requester],
                     threshold |-> e.threshold]>>
             ELSE <<>>)
            \o ExpectedNewTasks(Tail(events))

\* C11: new_tasks() leaves every event that is of no supported task kind out of
\* its output, and such an event does not touch the events after it: every later
\* supported event still yields its task. (On a SecretStoreEvent of another kind
\* event_into_task panics.)
C11_UnsupportedEventsSkipped ==
    /\ new_ret.kind # "Panic"
    /\ new_yielded = ExpectedNewTasks(SubSeq(block_events, 1, consumed))
    /\ new_ret.kind = "None" =>
          /\ consumed = Len(block_events)
          /\ new_yielded = ExpectedNewTasks(block_events)

\* C17: on a block whose events are events of other modules and "server key
\* generation requested" events only, new_tasks() yields one GenerateServerKey
\* task per such event, in the order of the events, with the key id, the
\* requester address and the threshold of the event and the default origin; the
\* other events yield nothing.
C17_GenerationRequestsBecomeTasks ==
    (\A i \in 1..Len(block_events) :
        ~block_events[i].secret_store \/ IsGenerationRequest(block_events[i])) =>
        /\ new_ret.kind # "Panic"
        /\ new_yielded = ExpectedNewTasks(SubSeq(block_events, 1, consumed))
        /\ new_ret.kind = "Some" =>
              /\ IsGenerationRequest(block_events[consumed])
              /\ new_ret.task = new_yielded[Len(new_yielded)]
              /\ new_ret.task.key_id = block_events[consumed].key_id
              /\ new_ret.task.requester.address = block_events[consumed].requester
              /\ new_ret.task.threshold = block_events[consumed].threshold
              /\ new_ret.task.origin = DefaultOrigin
        /\ new_ret.kind = "None" =>
              /\ consumed = Len(block_events)
              /\ new_yielded = ExpectedNewTasks(block_events)

C17_Witness ==
    /\ Len(block_events) = 3
    /\ ~block_events[1].secret_store
    /\ IsGenerationRequest(block_events[2]) /\ block_events[2].key_id = 2
    /\ IsGenerationRequest(block_events[3]) /\ block_events[3].key_id = 1
    /\ new_ret.kind = "None"
    /\ Len(new_yielded) = 2
    /\ new_yielded[1].threshold = 1
    /\ new_yielded[2].requester.address = "a1"

====
